---- MODULE Spec2Model ----
(***************************************************************************)
(* A model of the symbolic algebra engine "bullet": the interning store    *)
(* (src/src/node.rs), the canonical polynomial (src/src/poly.rs), the      *)
(* expression builder (src/core/src/builder.rs) and the source-emitting    *)
(* backend (src/src/vm/syn.rs).                                            *)
(*                                                                         *)
(* Values.                                                                 *)
(*   Rational  [num, den], den > 0, in lowest terms.                       *)
(*   NodeRc    [id, hash, node]: id is the allocation (Rc pointer), hash   *)
(*             the memoised structural hash, node the Node.                *)
(*   Node      [kind |-> "Var", name] | [kind |-> "Func", f, arg]          *)
(*             | [kind |-> "Poly", p] | [kind |-> "Tuple", parts].         *)
(*   Base      a sequence of <<NodeRc, exponent>>.                         *)
(*   Poly      a sequence of [base, fac]: the entries of the HashMap in    *)
(*             the order in which THIS map instance iterates.  A clone     *)
(*             keeps the order; a map that is built or grown gets an       *)
(*             order the program does not control (RandomState), which     *)
(*             the operators take as the parameter o.                      *)
(***************************************************************************)
EXTENDS Integers, Sequences, FiniteSets, TLC

VARIABLES
    items,      \* Cache.items: hash -> Weak<(Node, u64)>
    held,       \* the handles (strong references) the store's client holds
    ret,        \* what the last store operation was given and returned
    pp, pq, pr, \* three polynomials under test
    pout,       \* the last polynomial operation and its results
    bst,        \* the Builder: [items, defs], its Cache and its definitions
    ba, bb, bc, \* three handles built by the Builder and held by the caller
    bout,       \* the last Builder operation and its results
    tokens,     \* Syn.tokens: the emitted program, a sequence of tokens
    stored,     \* Syn.stored
    inputs,     \* Syn.inputs
    vars,       \* the backend values (Tokens) the lowering pass holds
    sout        \* the last backend operation and what it returned

cacheVars == <<items, held, ret>>
polyVars == <<pp, pq, pr, pout>>
builderVars == <<bst, ba, bb, bc, bout>>
synVars == <<tokens, stored, inputs, vars, sout>>
allVars == <<items, held, ret, pp, pq, pr, pout, bst, ba, bb, bc, bout,
             tokens, stored, inputs, vars, sout>>

\* what a run of one part of the program leaves alone: the state of the others
restOfCache == <<polyVars, builderVars, synVars>>
restOfBuilder == <<cacheVars, polyVars, synVars>>
restOfPoly == <<cacheVars, builderVars, synVars>>
restOfSyn == <<cacheVars, polyVars, builderVars>>

-----------------------------------------------------------------------------
(* Bounds of the model. *)

\* the structural hash is kept to HashBits bits (the program's is 64 bits wide)
HashBits == 12
\* how many iteration orders a HashMap instance may take
NumOrders == 2

HashSpace == 2 ^ HashBits
Orders == 0 .. (NumOrders - 1)

-----------------------------------------------------------------------------
(* Exact rationals: the primitive value type the polynomial is built on. *)

Abs(n) == IF n < 0 THEN -n ELSE n

RECURSIVE Gcd(_, _)
Gcd(a, b) == IF b = 0 THEN a ELSE Gcd(b, a % b)

Rat(n, d) ==
    LET g == Gcd(Abs(n), Abs(d))
        s == IF d < 0 THEN -1 ELSE 1
    IN  IF g = 0 THEN [num |-> n, den |-> d]
        ELSE [num |-> (s * n) \div g, den |-> (s * d) \div g]

RatFromInt(i) == [num |-> i, den |-> 1]
RatIsZero(r) == r.num = 0
RatAdd(a, b) == Rat(a.num * b.den + b.num * a.den, a.den * b.den)
RatMul(a, b) == Rat(a.num * b.num, a.den * b.den)

RECURSIVE IntPow(_, _)
IntPow(b, e) == IF e = 0 THEN 1 ELSE b * IntPow(b, e - 1)

RatPow(r, i) ==
    IF i >= 0 THEN Rat(IntPow(r.num, i), IntPow(r.den, i))
    ELSE Rat(IntPow(r.den, -i), IntPow(r.num, -i))

\* Option<i64>: <<>> is None, <<i>> is Some(i)
RatAsInt(r) == IF r.den = 1 THEN <<r.num>> ELSE <<>>

CmpInt(a, b) == IF a < b THEN -1 ELSE IF a > b THEN 1 ELSE 0
RatCmp(a, b) == CmpInt(a.num * b.den, b.num * a.den)

-----------------------------------------------------------------------------
(* Names and function tags, with the bytes they hash and order by. *)

\* the UTF-8 bytes of each name the model uses
NameBytes(n) ==
    CASE n = "a" -> <<97>> [] n = "b" -> <<98>> [] n = "c" -> <<99>>
      [] n = "f" -> <<102>> [] n = "g" -> <<103>> [] n = "t" -> <<116>>
      [] n = "x" -> <<120>> [] n = "y" -> <<121>>
      [] n = "ra" -> <<114, 97>>
      [] n = "sin" -> <<115, 105, 110>> [] n = "cos" -> <<99, 111, 115>>
      [] n = "exp" -> <<101, 120, 112>> [] n = "log" -> <<108, 111, 103>>

RECURSIVE BytesCmp(_, _)
\* String as Ord: the bytes, lexicographic
BytesCmp(a, b) ==
    IF a = <<>> \/ b = <<>> THEN (IF Len(a) < Len(b) THEN -1 ELSE IF Len(a) > Len(b) THEN 1 ELSE 0)
    ELSE IF a[1] # b[1] THEN (IF a[1] < b[1] THEN -1 ELSE 1)
    ELSE BytesCmp(Tail(a), Tail(b))

FuncCode(f) ==
    CASE f = "sin" -> 0 [] f = "cos" -> 1 [] f = "exp" -> 2 [] f = "log" -> 3

\* the discriminant of each Node variant, in declaration order
KindCode(k) ==
    CASE k = "Var" -> 0 [] k = "Func" -> 1 [] k = "Poly" -> 3 [] k = "Tuple" -> 4

-----------------------------------------------------------------------------
(* Hashing: impl Hash for NodeRc, Poly and (derived) Node, and the         *)
(* DefaultHasher that Cache::intern feeds.                                 *)

\* impl Hash for NodeRc: state.write_u64(self.inner.1)
HashNodeRc(h) == <<h.hash>>

RECURSIVE HashBase(_)
HashBase(b) ==
    IF b = <<>> THEN <<>>
    ELSE HashNodeRc(b[1][1]) \o <<b[1][2]>> \o HashBase(Tail(b))

\* a (Base, Rational) pair: the Vec writes its length, then its elements
HashFactor(e) == <<Len(e.base)>> \o HashBase(e.base) \o <<e.fac.num, e.fac.den>>

\* impl Hash for Poly: every factor, in the order the map iterates
RECURSIVE HashPoly(_)
HashPoly(p) == IF p = <<>> THEN <<>> ELSE HashFactor(p[1]) \o HashPoly(Tail(p))

RECURSIVE HashParts(_)
HashParts(ps) == IF ps = <<>> THEN <<>> ELSE HashNodeRc(ps[1]) \o HashParts(Tail(ps))

\* #[derive(Hash)] for Node: the discriminant, then the fields
HashNode(n) ==
    <<KindCode(n.kind)>> \o
    (CASE n.kind = "Var" -> NameBytes(n.name) \o <<255>>
       [] n.kind = "Func" -> <<0, FuncCode(n.f)>> \o HashNodeRc(n.arg)
       [] n.kind = "Poly" -> HashPoly(n.p)
       [] n.kind = "Tuple" -> <<Len(n.parts)>> \o HashParts(n.parts))

\* DefaultHasher: a fixed-key mixing of the words written, to HashBits bits
HashMul == 1237
RECURSIVE Finish(_, _)
Finish(h, ws) ==
    IF ws = <<>> THEN h
    ELSE Finish(((h * HashMul) + (Head(ws) % HashSpace) + 1) % HashSpace, Tail(ws))

\* node.hash(&mut h); h.finish()
StructuralHash(n) == Finish(0, HashNode(n))

-----------------------------------------------------------------------------
(* Equality: impl PartialEq for NodeRc and Poly, #[derive(PartialEq)] Node. *)

\* impl PartialEq for NodeRc: self.inner.1 == rhs.inner.1
NodeRcEq(a, b) == a.hash = b.hash

\* Rc::ptr_eq: the very same allocation
PtrEq(a, b) == a.id = b.id

\* Vec<(NodeRc, i64)> == Vec<(NodeRc, i64)>
BaseEq(a, b) ==
    /\ Len(a) = Len(b)
    /\ \A i \in 1 .. Len(a) : NodeRcEq(a[i][1], b[i][1]) /\ a[i][2] = b[i][2]

\* HashMap::get: Option<Rational>
PolyGet(p, base) ==
    LET hit == {i \in 1 .. Len(p) : BaseEq(p[i].base, base)}
    IN  IF hit = {} THEN <<>> ELSE <<p[CHOOSE i \in hit : TRUE].fac>>

\* impl PartialEq for Poly
PolyEq(a, b) ==
    /\ Len(a) = Len(b)
    /\ \A i \in 1 .. Len(a) : PolyGet(b, a[i].base) = <<a[i].fac>>

\* #[derive(PartialEq)] for Node
NodeEq(m, n) ==
    /\ m.kind = n.kind
    /\ CASE m.kind = "Var" -> m.name = n.name
         [] m.kind = "Func" -> m.f = n.f /\ NodeRcEq(m.arg, n.arg)
         [] m.kind = "Poly" -> PolyEq(m.p, n.p)
         [] m.kind = "Tuple" ->
                /\ Len(m.parts) = Len(n.parts)
                /\ \A i \in 1 .. Len(m.parts) : NodeRcEq(m.parts[i], n.parts[i])

-----------------------------------------------------------------------------
(* Ordering: #[derive(Ord)] for NodeRc and Node, cmp_poly, cmp_base.       *)
(* An Ordering is -1 (Less), 0 (Equal) or 1 (Greater).                     *)

RECURSIVE NodeRcCmp(_, _), NodeCmp(_, _), PartsCmp(_, _), PairCmp(_, _),
          BaseCmp(_, _), FactorCmp(_, _), InsertFactor(_, _), SortFactors(_),
          cmp_base_nodes(_, _), cmp_poly_zip(_, _), cmp_poly(_, _)

\* Ordering::then: the first comparison unless it is Equal
Then(c, d) == IF c # 0 THEN c ELSE d

\* (NodeRc, i64) as a tuple: the handle, then the exponent
PairCmp(x, y) == Then(NodeRcCmp(x[1], y[1]), CmpInt(x[2], y[2]))

\* Vec<(NodeRc, i64)>, lexicographic
BaseCmp(a, b) ==
    IF a = <<>> \/ b = <<>> THEN CmpInt(Len(a), Len(b))
    ELSE Then(PairCmp(a[1], b[1]), BaseCmp(Tail(a), Tail(b)))

\* Vec<NodeRc>, lexicographic
PartsCmp(a, b) ==
    IF a = <<>> \/ b = <<>> THEN CmpInt(Len(a), Len(b))
    ELSE Then(NodeRcCmp(a[1], b[1]), PartsCmp(Tail(a), Tail(b)))

\* (&Base, &Rational) as a tuple
FactorCmp(e, f) == Then(BaseCmp(e.base, f.base), RatCmp(e.fac, f.fac))

InsertFactor(e, s) ==
    IF s = <<>> THEN <<e>>
    ELSE IF FactorCmp(e, s[1]) < 0 THEN <<e>> \o s
    ELSE <<s[1]>> \o InsertFactor(e, Tail(s))

\* e_a.sort()
SortFactors(p) ==
    IF p = <<>> THEN <<>> ELSE InsertFactor(p[Len(p)], SortFactors(SubSeq(p, 1, Len(p) - 1)))

\* the first loop of cmp_base: the handles, pairwise
cmp_base_nodes(a, b) ==
    IF a = <<>> \/ b = <<>> THEN 0
    ELSE Then(NodeRcCmp(a[1][1], b[1][1]), cmp_base_nodes(Tail(a), Tail(b)))

RECURSIVE cmp_base_exps(_, _)
\* the second loop of cmp_base: the exponents, pairwise
cmp_base_exps(a, b) ==
    IF a = <<>> \/ b = <<>> THEN 0
    ELSE Then(CmpInt(a[1][2], b[1][2]), cmp_base_exps(Tail(a), Tail(b)))

cmp_base(a, b) ==
    IF Len(a) # Len(b) THEN CmpInt(Len(a), Len(b))
    ELSE Then(cmp_base_nodes(a, b), cmp_base_exps(a, b))

\* the loop of cmp_poly over the two sorted lists: cmp_base on the keys only
cmp_poly_zip(ea, eb) ==
    IF ea = <<>> \/ eb = <<>> THEN 0
    ELSE Then(cmp_base(ea[1].base, eb[1].base), cmp_poly_zip(Tail(ea), Tail(eb)))

cmp_poly(a, b) ==
    IF Len(a) # Len(b) THEN CmpInt(Len(a), Len(b))
    ELSE cmp_poly_zip(SortFactors(a), SortFactors(b))

\* #[derive(Ord)] for Node: the variant, then the fields
NodeCmp(m, n) ==
    IF m.kind # n.kind THEN CmpInt(KindCode(m.kind), KindCode(n.kind))
    ELSE CASE m.kind = "Var" -> BytesCmp(NameBytes(m.name), NameBytes(n.name))
           [] m.kind = "Func" ->
                  IF m.f # n.f THEN CmpInt(FuncCode(m.f), FuncCode(n.f))
                  ELSE NodeRcCmp(m.arg, n.arg)
           [] m.kind = "Poly" -> cmp_poly(m.p, n.p)
           [] m.kind = "Tuple" -> PartsCmp(m.parts, n.parts)

\* #[derive(Ord)] for NodeRc { inner: Rc<(Node, u64)> }: the node, then the hash
NodeRcCmp(a, b) == Then(NodeCmp(a.node, b.node), CmpInt(a.hash, b.hash))

RECURSIVE InsertPair(_, _), SortBase(_)
InsertPair(x, s) ==
    IF s = <<>> THEN <<x>>
    ELSE IF PairCmp(x, s[1]) < 0 THEN <<x>> \o s
    ELSE <<s[1]>> \o InsertPair(x, Tail(s))

\* base.sort(), and base.sort_by(handle, then exponent): the same order, stable
SortBase(b) ==
    IF b = <<>> THEN <<>> ELSE InsertPair(b[Len(b)], SortBase(SubSeq(b, 1, Len(b) - 1)))

-----------------------------------------------------------------------------
(* The canonical polynomial: src/src/poly.rs.                              *)

Min(S) == CHOOSE i \in S : \A j \in S : i <= j

\* the order in which a map that was built or grown iterates: one of NumOrders
Reorder(m, o) ==
    LET n == Len(m)
        k == IF n = 0 THEN 0 ELSE o % n
    IN  SubSeq(m, k + 1, n) \o SubSeq(m, 1, k)

\* HashMap::entry: the index of the occupied entry, 0 when vacant
EntryOf(m, base) ==
    LET hit == {i \in 1 .. Len(m) : BaseEq(m[i].base, base)}
    IN  IF hit = {} THEN 0 ELSE Min(hit)

RemoveAt(s, i) == SubSeq(s, 1, i - 1) \o SubSeq(s, i + 1, Len(s))

add_to(m, base, r) ==
    LET i == EntryOf(m, base)
    IN  IF i = 0 THEN Append(m, [base |-> base, fac |-> r])
        ELSE LET f == RatAdd(m[i].fac, r)
             IN  IF RatIsZero(f) THEN RemoveAt(m, i) ELSE [m EXCEPT ![i].fac = f]

\* once((base, fac)).collect(), after base.sort()
PolyOne(base, fac) == <<[base |-> SortBase(base), fac |-> fac]>>
PolyZero == <<>>
PolyRational(r) == IF RatIsZero(r) THEN PolyZero ELSE PolyOne(<<>>, r)
PolyInt(i) == PolyRational(RatFromInt(i))
from_node(h) ==
    IF h.node.kind = "Poly" THEN h.node.p
    ELSE PolyOne(<< <<h, 1>> >>, RatFromInt(1))

is_zero(p) == Len(p) = 0

\* Option<Rational>
as_rational(p) ==
    IF Len(p) = 0 THEN <<RatFromInt(0)>>
    ELSE IF Len(p) = 1 THEN PolyGet(p, <<>>)
    ELSE <<>>

\* Option<i64>
as_int(p) ==
    LET r == as_rational(p) IN IF r = <<>> THEN <<>> ELSE RatAsInt(r[1])

\* each summand collected into a map of its own
split(p) == [i \in 1 .. Len(p) |-> <<p[i]>>]

RECURSIVE AddAll(_, _)
AddAll(m, es) ==
    IF es = <<>> THEN m ELSE AddAll(add_to(m, es[1].base, es[1].fac), Tail(es))

\* impl Add for Poly: rhs's entries added to self's map, which iterates in a
\* new order once it has grown
PolyAdd(a, b, o) ==
    LET m == AddAll(a, b)
        grown == \E i \in 1 .. Len(b) : EntryOf(a, b[i].base) = 0
    IN  IF grown THEN Reorder(m, o) ELSE m

SwapRemove(s, i) ==
    IF i = Len(s) THEN SubSeq(s, 1, Len(s) - 1)
    ELSE [SubSeq(s, 1, Len(s) - 1) EXCEPT ![i] = s[Len(s)]]

\* base.iter().position(|b| *v == b.0): the index of the handle, 0 when None
BasePosition(base, v) ==
    LET hit == {i \in 1 .. Len(base) : NodeRcEq(v, base[i][1])}
    IN  IF hit = {} THEN 0 ELSE Min(hit)

\* the power pushed as a new base even where the handle already is in base
MulPower_pushing_again(base, v, n, i) == Append(base, <<v, n>>)

\* the power n of the handle v multiplied onto base, v being at index i of it
MulPower(base, v, n, i) ==
    IF i = 0 THEN Append(base, <<v, n>>)
    ELSE IF base[i][2] + n = 0 THEN SwapRemove(base, i)
    ELSE [base EXCEPT ![i] = <<base[i][1], base[i][2] + n>>]

RECURSIVE MulBase_keeping_zero_powers(_, _)
\* the base vectors multiplied without dropping a base whose powers cancel
MulBase_keeping_zero_powers(base, bbase) ==
    IF bbase = <<>> THEN base
    ELSE LET v == bbase[1][1]
             n == bbase[1][2]
             i == BasePosition(base, v)
             next == IF i = 0 THEN Append(base, <<v, n>>)
                     ELSE [base EXCEPT ![i] = <<base[i][1], base[i][2] + n>>]
         IN  MulBase_keeping_zero_powers(next, Tail(bbase))

RECURSIVE MulBase(_, _)
\* "multiply base vector by adding powers"
MulBase(base, bbase) ==
    IF bbase = <<>> THEN base
    ELSE MulBase(MulPower(base, bbase[1][1], bbase[1][2],
                          BasePosition(base, bbase[1][1])), Tail(bbase))

RECURSIVE MulInner(_, _, _), MulOuter(_, _, _)
MulInner(m, e, bs) ==
    IF bs = <<>> THEN m
    ELSE MulInner(add_to(m, SortBase(MulBase(e.base, bs[1].base)),
                         RatMul(e.fac, bs[1].fac)), e, Tail(bs))
MulOuter(m, as, b) ==
    IF as = <<>> THEN m ELSE MulOuter(MulInner(m, as[1], b), Tail(as), b)

\* impl Mul for Poly: a new map, filled over the cartesian product
PolyMul(a, b, o) == Reorder(MulOuter(<<>>, a, b), o)

\* impl MulAssign<Rational> for Poly: every coefficient, in place
MulAssignRational(p, r) ==
    [i \in 1 .. Len(p) |-> [base |-> p[i].base, fac |-> RatMul(p[i].fac, r)]]
\* impl Mul<i64> / MulAssign<i64> for Poly
MulI64(p, k) == MulAssignRational(p, RatFromInt(k))

RECURSIVE pow_n_loop(_, _, _, _)
pow_n_loop(p, self, n, o) ==
    IF n > 1
    THEN pow_n_loop(IF n % 2 = 1 THEN PolyMul(p, self, o) ELSE p,
                    PolyMul(self, self, o), n \div 2, o)
    ELSE IF n = 1 THEN PolyMul(p, self, o) ELSE p
pow_n(self, n, o) == pow_n_loop(PolyInt(1), self, n, o)

-----------------------------------------------------------------------------
(* The interning store: src/src/node.rs.                                   *)

\* the handles a node owns (strong references)
Kids(h) ==
    CASE h.node.kind = "Var" -> {}
      [] h.node.kind = "Func" -> {h.node.arg}
      [] h.node.kind = "Tuple" -> {h.node.parts[i] : i \in 1 .. Len(h.node.parts)}
      [] h.node.kind = "Poly" ->
             UNION {{h.node.p[i].base[j][1] : j \in 1 .. Len(h.node.p[i].base)} :
                    i \in 1 .. Len(h.node.p)}

RECURSIVE Reach(_)
\* the allocations kept alive by the owners in S: strong count > 0
Reach(S) ==
    LET K == UNION {Kids(h) : h \in S}
    IN  IF K \subseteq S THEN S ELSE Reach(S \cup K)

\* Rc::new: an address no live allocation has
NewId(live) ==
    LET used == {h.id : h \in live}
    IN  Min({i \in 0 .. Cardinality(used) : i \notin used})

\* Cache::new
CacheNew == [h \in {} |-> 0]

\* Weak::upgrade: Some iff the allocation is still alive
Upgrade(w, live) == IF w \in live THEN <<w>> ELSE <<>>

PutItem(its, hash, rc) ==
    [k \in (DOMAIN its) \cup {hash} |-> IF k = hash THEN rc ELSE its[k]]

\* the match on self.items.entry(hash) in Cache::intern.  The result says which
\* arm was taken: "vacant", "hit", "dead" (the entry's node is gone), or "panic"
\* (assert_eq! failed: the call does not return)
intern_entry(its, live, node, rc) ==
    IF rc.hash \notin DOMAIN its
    THEN [arm |-> "vacant", items |-> PutItem(its, rc.hash, rc), rc |-> rc]
    ELSE LET up == Upgrade(its[rc.hash], live)
         IN  IF up # <<>>
             THEN IF NodeEq(up[1].node, node)
                  THEN [arm |-> "hit", items |-> its, rc |-> up[1]]
                  ELSE [arm |-> "panic", items |-> its, rc |-> up[1]]
             ELSE [arm |-> "dead", items |-> PutItem(its, rc.hash, rc), rc |-> rc]

\* Cache::intern, given the allocations alive at the call: the hash of the node,
\* then the match on its entry; rc is the allocation Rc::new makes if the entry
\* is vacant or its node is gone
intern(its, live, node) ==
    intern_entry(its, live, node,
                 [id |-> NewId(live), hash |-> StructuralHash(node), node |-> node])

-----------------------------------------------------------------------------
(* The store and one client that interns nodes and drops handles.          *)

\* the client holds at most MaxHeld handles and makes at most MaxInterns calls
MaxHeld == 3
MaxInterns == 4

\* "t" and "ra" are two names with one structural hash
CacheNames == {"a", "t", "ra"}

VarNode(name) == [kind |-> "Var", name |-> name]
FuncNode(f, g) == [kind |-> "Func", f |-> f, arg |-> g]
PolyNode(p) == [kind |-> "Poly", p |-> p]
TupleNode(parts) == [kind |-> "Tuple", parts |-> parts]

\* the nodes a client can make from the handles L it can reach
ClientNodes(L) ==
    LET leaves == {h \in L : h.node.kind = "Var"}
    IN  {VarNode(n) : n \in CacheNames}
        \cup {FuncNode("sin", h) : h \in leaves}
        \cup {TupleNode(<<h1, h2>>) : h1 \in leaves, h2 \in leaves}
        \cup {PolyNode(from_node(h)) : h \in leaves}
        \cup {PolyNode(PolyAdd(from_node(h1), from_node(h2), o)) :
                  h1 \in leaves, h2 \in leaves, o \in Orders}

PolyIdle == pp = <<>> /\ pq = <<>> /\ pr = <<>> /\ pout = [op |-> "none"]
CacheIdle == items = CacheNew /\ held = {} /\ ret = [op |-> "none", n |-> 0]
BuilderIdle ==
    /\ bst = CacheNew /\ ba = <<>> /\ bb = <<>> /\ bc = <<>>
    /\ bout = [op |-> "none"]
SynIdle ==
    /\ tokens = <<>> /\ stored = 0 /\ inputs = <<>> /\ vars = <<>>
    /\ sout = [op |-> "none"]

InitCache == CacheIdle /\ PolyIdle /\ BuilderIdle /\ SynIdle

\* let h = cache.intern(node)
CacheIntern(node) ==
    /\ ret.op # "panic"
    /\ ret.n < MaxInterns
    /\ Cardinality(held) < MaxHeld
    /\ \E r \in {intern(items, Reach(held), node)} :
          /\ items' = r.items
          /\ held' = IF r.arm = "panic" THEN held ELSE held \cup {r.rc}
          /\ ret' = [op |-> IF r.arm = "panic" THEN "panic" ELSE "intern",
                     n |-> ret.n + 1, arm |-> r.arm, node |-> node, rc |-> r.rc,
                     live |-> Reach(held)]

\* drop(h)
CacheDrop(h) ==
    /\ ret.op # "panic"
    /\ held' = held \ {h}
    /\ ret' = [op |-> "drop", n |-> ret.n]
    /\ UNCHANGED items

NextCache ==
    \/ \E node \in ClientNodes(Reach(held)) : CacheIntern(node) /\ UNCHANGED restOfCache
    \/ \E h \in held : CacheDrop(h) /\ UNCHANGED restOfCache

SpecCache == InitCache /\ [][NextCache]_allVars

\* C1: a node structurally equal to the node of a handle that is still alive is
\* interned to that handle's allocation, and the two handles compare equal
C1_InternReturnsLiveHandle ==
    ret.op = "intern" =>
        \A h \in ret.live :
            NodeEq(h.node, ret.node) => PtrEq(ret.rc, h) /\ NodeRcEq(ret.rc, h)

\* C2: two handles of the store that are alive together compare equal exactly
\* when their nodes are structurally equal
C2_EqualIffStructurallyEqual ==
    \A h1 \in Reach(held), h2 \in Reach(held) :
        NodeRcEq(h1, h2) <=> NodeEq(h1.node, h2.node)

\* the half of C2 the store keeps: handles that compare equal are one allocation,
\* and a call that returns gives a handle to a node equal to the one passed
C2_NoSilentMerge ==
    /\ \A h1 \in Reach(held), h2 \in Reach(held) : NodeRcEq(h1, h2) => h1 = h2
    /\ ret.op = "intern" => NodeEq(ret.rc.node, ret.node)

\* the store refused to merge: a live node with the same hash and another value
C2_CollisionAborts ==
    ret.op = "panic" /\ ret.rc \in ret.live /\ ~NodeEq(ret.rc.node, ret.node)

-----------------------------------------------------------------------------
(* The expression builder: src/core/src/builder.rs.                        *)
(*                                                                         *)
(* A builder call runs in a context c = [items, live]: the store's table   *)
(* and the allocations alive, which grows by what the call interns.  It    *)
(* returns [c, tag, v]: tag "ok" with the value v, tag "err" with the      *)
(* Error v, or tag "panic" when the store's assert_eq! fails.  o is the    *)
(* order in which the maps the call builds iterate.                        *)

Ok(c, v) == [c |-> c, tag |-> "ok", v |-> v]
Err(c, e) == [c |-> c, tag |-> "err", v |-> e]
Panic(c) == [c |-> c, tag |-> "panic", v |-> <<>>]

DivZero == [kind |-> "DivZero"]
ShapeMismatch(n, m) == [kind |-> "ShapeMismatch", n |-> n, m |-> m]

\* Builder::intern
Builder_interned(c, r) ==
    IF r.arm = "panic" THEN Panic(c)
    ELSE Ok([items |-> r.items, live |-> c.live \cup {r.rc}], r.rc)
Builder_intern(c, node) == Builder_interned(c, intern(c.items, c.live, node))

Builder_poly(c, p) == Builder_intern(c, PolyNode(p))
Builder_int(c, i) == Builder_intern(c, PolyNode(PolyInt(i)))
Builder_rational(c, r) == Builder_poly(c, PolyRational(r))
Builder_var(c, name) == Builder_intern(c, VarNode(name))

\* fn poly(node: NodeRc) -> Poly
poly(node) == IF node.node.kind = "Poly" THEN node.node.p ELSE from_node(node)

\* Ok(self.poly(r?)): the handle of the polynomial a result holds
Builder_poly_of(r) == IF r.tag # "ok" THEN r ELSE Builder_poly(r.c, r.v)

\* the exponents at which pow_i expands by repeated multiplication: 0 < i < 4
ExpandBelow == 4

\* Poly::one(vec![(h, i)], 1.into()), h being the handle builder.poly(self) gave
opaque_power(h, i) ==
    IF h.tag # "ok" THEN h ELSE Ok(h.c, PolyOne(<< <<h.v, i>> >>, RatFromInt(1)))

\* pow_i refusing the zero constant whatever the sign of the exponent
Poly_pow_i_refusing_zero(c, self, i, o) ==
    IF i = 0 THEN Ok(c, PolyInt(1))
    ELSE LET r == as_rational(self)
         IN  IF r # <<>>
             THEN IF RatIsZero(r[1]) THEN Err(c, DivZero)
                  ELSE Ok(c, PolyRational(RatPow(r[1], i)))
             ELSE IF Len(self) = 1
             THEN Ok(c, PolyOne([j \in 1 .. Len(self[1].base) |->
                                    <<self[1].base[j][1], self[1].base[j][2] * i>>],
                                RatPow(self[1].fac, i)))
             ELSE IF i > 0 /\ i < ExpandBelow THEN Ok(c, pow_n(self, i, o))
             ELSE opaque_power(Builder_poly(c, self), i)

\* Poly::pow_i
Poly_pow_i(c, self, i, o) ==
    IF i = 0 THEN Ok(c, PolyInt(1))
    ELSE LET r == as_rational(self)
         IN  IF r # <<>>
             THEN IF RatIsZero(r[1]) /\ i < 0 THEN Err(c, DivZero)
                  ELSE Ok(c, PolyRational(RatPow(r[1], i)))
             ELSE IF Len(self) = 1
             THEN Ok(c, PolyOne([j \in 1 .. Len(self[1].base) |->
                                    <<self[1].base[j][1], self[1].base[j][2] * i>>],
                                RatPow(self[1].fac, i)))
             ELSE IF i > 0 /\ i < ExpandBelow THEN Ok(c, pow_n(self, i, o))
             ELSE opaque_power(Builder_poly(c, self), i)

\* Builder::tuple, given the parts already collected
Builder_tuple(r) == IF r.tag # "ok" THEN r ELSE Builder_intern(r.c, TupleNode(r.v))

\* collect::<Result<Vec<_>, _>>(): the value of r after the values in acc, or the
\* error of r
collected(acc, r) == IF r.tag # "ok" THEN r ELSE Ok(r.c, Append(acc.v, r.v))

RECURSIVE map_pow_i(_, _, _, _)
\* ta.iter().map(|a| f(a.clone(), i.clone())) with the closure of pow_i, collected
\* in order up to an error
map_pow_i(acc, as, i, o) ==
    IF acc.tag # "ok" \/ as = <<>> THEN acc
    ELSE map_pow_i(collected(acc, Builder_poly_of(Poly_pow_i(acc.c, poly(as[1]), i, o))),
                   Tail(as), i, o)

\* Builder::pow_i: uniform_one with the closure |x, i| Ok(self.poly(poly(x).pow_i(self, i)?))
Builder_pow_i(c, a, i, o) ==
    IF a.node.kind = "Tuple"
    THEN Builder_tuple(map_pow_i(Ok(c, <<>>), a.node.parts, i, o))
    ELSE Builder_poly_of(Poly_pow_i(c, poly(a), i, o))

RECURSIVE map_func(_, _, _)
\* ta.iter().map(|a| f(a.clone(), t.clone())) with the closure of func
map_func(acc, as, f) ==
    IF acc.tag # "ok" \/ as = <<>> THEN acc
    ELSE map_func(collected(acc, Builder_intern(acc.c, FuncNode(f, as[1]))), Tail(as), f)

\* Builder::func: uniform_one with the closure |g, f| Ok(self.intern(Node::Func(f, g)))
Builder_func(c, f, g) ==
    IF g.node.kind = "Tuple"
    THEN Builder_tuple(map_func(Ok(c, <<>>), g.node.parts, f))
    ELSE Builder_intern(c, FuncNode(f, g))

\* self.pow_i(r?, i) and self.func(f, r?)
Builder_pow_i_of(r, i, o) == IF r.tag # "ok" THEN r ELSE Builder_pow_i(r.c, r.v, i, o)
Builder_func_of(f, r) == IF r.tag # "ok" THEN r ELSE Builder_func(r.c, f, r.v)

RECURSIVE uniform(_, _, _, _, _)

\* op(r?, b) and op(a, r?): the operation on the value a result holds
uniform_lhs(op, r, b, o) == IF r.tag # "ok" THEN r ELSE uniform(op, r.c, r.v, b, o)
uniform_rhs(op, a, r, o) == IF r.tag # "ok" THEN r ELSE uniform(op, r.c, a, r.v, o)

Builder_add(c, a, b, o) == uniform("add", c, a, b, o)
Builder_sub(c, a, b, o) == uniform("sub", c, a, b, o)
Builder_mul(c, a, b, o) == uniform("mul", c, a, b, o)
Builder_div(c, a, b, o) == uniform("div", c, a, b, o)
Builder_pow(c, a, b, o) == uniform("pow", c, a, b, o)

\* Builder::neg
Builder_neg(c, a, o) == uniform_lhs("mul", Builder_int(c, -1), a, o)

\* Ok(self.poly(p * q?)): the product of p and the polynomial a result holds
Builder_poly_times(p, q, o) ==
    IF q.tag # "ok" THEN q ELSE Builder_poly(q.c, PolyMul(p, q.v, o))

\* the closure of Builder::div: poly(a) * poly(b).pow_i(self, -1)?
div_closure(c, a, b, o) ==
    Builder_poly_times(poly(a), Poly_pow_i(c, poly(b), -1, o), o)

\* the integer a handle is, if it is the polynomial of an integer constant
IntOf(h) == IF h.node.kind = "Poly" THEN as_int(h.node.p) ELSE <<>>

\* the closure of Builder::pow
pow_closure(c, a, b, o) ==
    IF IntOf(b) # <<>> THEN Builder_pow_i(c, a, IntOf(b)[1], o)
    ELSE Builder_func_of("exp", uniform_lhs("mul", Builder_func(c, "log", a), b, o))

\* the closures f of add, sub, mul, div and pow
scalar(op, c, a, b, o) ==
    CASE op = "add" -> Builder_poly(c, PolyAdd(poly(a), poly(b), o))
      [] op = "sub" -> Builder_poly(c, PolyAdd(poly(a), MulI64(poly(b), -1), o))
      [] op = "mul" -> Builder_poly(c, PolyMul(poly(a), poly(b), o))
      [] op = "div" -> div_closure(c, a, b, o)
      [] op = "pow" -> pow_closure(c, a, b, o)

\* the pairs the closure f is called on when an operand is a tuple
pairs(a, b) ==
    IF a.node.kind = "Tuple" /\ b.node.kind = "Tuple"
    THEN [i \in 1 .. Len(a.node.parts) |-> <<a.node.parts[i], b.node.parts[i]>>]
    ELSE IF a.node.kind = "Tuple"
    THEN [i \in 1 .. Len(a.node.parts) |-> <<a.node.parts[i], b>>]
    ELSE [i \in 1 .. Len(b.node.parts) |-> <<a, b.node.parts[i]>>]

RECURSIVE zip_map(_, _, _, _)
\* .map(|(a, b)| f(a.clone(), b.clone())) over the pairs, collected in order up to
\* an error
zip_map(op, acc, ps, o) ==
    IF acc.tag # "ok" \/ ps = <<>> THEN acc
    ELSE zip_map(op, collected(acc, scalar(op, acc.c, ps[1][1], ps[1][2], o)), Tail(ps), o)

\* Builder::uniform, with the closure f that add, sub, mul, div or pow passes
uniform(op, c, a, b, o) ==
    IF a.node.kind # "Tuple" /\ b.node.kind # "Tuple" THEN scalar(op, c, a, b, o)
    ELSE IF a.node.kind = "Tuple" /\ b.node.kind = "Tuple"
            /\ Len(a.node.parts) # Len(b.node.parts)
    THEN Err(c, ShapeMismatch(Len(a.node.parts), Len(b.node.parts)))
    ELSE Builder_tuple(zip_map(op, Ok(c, <<>>), pairs(a, b), o))

RECURSIVE substitute(_, _, _, _), subst_parts(_, _, _, _),
          subst_item(_, _, _, _), try_fold(_, _, _, _, _)

\* try_fold(items, init, |a, b| self.op(a, b)) of Builder::sum and Builder::product:
\* each item made in its turn and put onto the handle folded so far
try_fold(op, acc, its, map, o) ==
    IF acc.tag # "ok" \/ its = <<>> THEN acc
    ELSE try_fold(op, uniform_rhs(op, acc.v, subst_item(acc.c, its[1], map, o), o),
                  Tail(its), map, o)

\* once(Ok(rational(fac))).chain(bases): the items of one product, r being the
\* handle rational(fac) made
factors(r, base) ==
    <<[kind |-> "once", v |-> r]>> \o
    [j \in 1 .. Len(base) |-> [kind |-> "base", v |-> base[j][1], p |-> base[j][2]]]

\* Builder::product over the factors of one summand, folded from int(1)
subst_product(r, base, map, o) ==
    IF r.tag # "ok" THEN r
    ELSE try_fold("mul", Builder_int(r.c, 1), factors(r.v, base), map, o)

\* the items substitute gives to sum and product: a summand (base, fac) of the
\* polynomial, the coefficient already made, a base (v, p) of a summand
subst_item(c, it, map, o) ==
    CASE it.kind = "summand" -> subst_product(Builder_rational(c, it.fac), it.base, map, o)
      [] it.kind = "once" -> Ok(c, it.v)
      [] it.kind = "base" -> Builder_pow_i_of(substitute(c, it.v, map, o), it.p, o)

\* p.factors(): the items of the sum, in the order the map iterates
summands(p) ==
    [i \in 1 .. Len(p) |-> [kind |-> "summand", base |-> p[i].base, fac |-> p[i].fac]]

\* parts.iter().map(|n| self.substitute(n, map)), collected in order up to an error
subst_parts(acc, parts, map, o) ==
    IF acc.tag # "ok" \/ parts = <<>> THEN acc
    ELSE subst_parts(collected(acc, substitute(acc.c, parts[1], map, o)),
                     Tail(parts), map, o)

\* Builder::substitute
substitute(c, node, map, o) ==
    CASE node.node.kind = "Var" ->
             Ok(c, IF node.node.name \in DOMAIN map THEN map[node.node.name] ELSE node)
      [] node.node.kind = "Tuple" ->
             Builder_tuple(subst_parts(Ok(c, <<>>), node.node.parts, map, o))
      [] node.node.kind = "Poly" ->
             try_fold("add", Builder_int(c, 0), summands(node.node.p), map, o)
      [] node.node.kind = "Func" ->
             Builder_func_of(node.node.f, substitute(c, node.node.arg, map, o))

Max(S) == CHOOSE i \in S : \A j \in S : j <= i

\* the closure map of Builder::apply: args zipped with the parameter names
ArgMap(def, args) ==
    LET n == IF Len(args) < Len(def.args) THEN Len(args) ELSE Len(def.args)
    IN  [k \in {def.args[j] : j \in 1 .. n} |->
            args[Max({j \in 1 .. n : def.args[j] = k})]]

RECURSIVE apply_windows(_, _, _, _)
\* parts.windows(1).map(|p| self.substitute(&def.expr, &map(p)))
apply_windows(acc, def, parts, o) ==
    IF acc.tag # "ok" \/ parts = <<>> THEN acc
    ELSE apply_windows(
             collected(acc, substitute(acc.c, def.expr, ArgMap(def, <<parts[1]>>), o)),
             def, Tail(parts), o)

\* apply matching the arity against the tuple length before broadcasting
Builder_apply_arity_first(c, defs, left, right, o) ==
    IF left.node.kind = "Var" /\ left.node.name \in DOMAIN defs
    THEN LET def == defs[left.node.name]
             n == Len(def.args)
         IN  IF right.node.kind = "Tuple"
             THEN IF n = Len(right.node.parts)
                  THEN substitute(c, def.expr, ArgMap(def, right.node.parts), o)
                  ELSE Err(c, ShapeMismatch(n, Len(right.node.parts)))
             ELSE IF n = 1 THEN substitute(c, def.expr, ArgMap(def, <<right>>), o)
             ELSE Err(c, ShapeMismatch(n, 1))
    ELSE Builder_mul(c, left, right, o)

\* Builder::apply
Builder_apply(c, defs, left, right, o) ==
    IF left.node.kind = "Var" /\ left.node.name \in DOMAIN defs
    THEN LET def == defs[left.node.name]
             n == Len(def.args)
         IN  IF right.node.kind = "Tuple"
             THEN IF n = 1
                  THEN Builder_tuple(apply_windows(Ok(c, <<>>), def, right.node.parts, o))
                  ELSE IF n = Len(right.node.parts)
                  THEN substitute(c, def.expr, ArgMap(def, right.node.parts), o)
                  ELSE Err(c, ShapeMismatch(n, Len(right.node.parts)))
             ELSE IF n = 1 THEN substitute(c, def.expr, ArgMap(def, <<right>>), o)
             ELSE Err(c, ShapeMismatch(n, 1))
    ELSE Builder_mul(c, left, right, o)

\* Builder::define
define(defs, name, args, node) ==
    [k \in (DOMAIN defs) \cup {name} |->
        IF k = name THEN [args |-> args, expr |-> node] ELSE defs[k]]

RECURSIVE init_loop(_, _, _, _)
\* the loop of Builder::init over sin, cos, exp, log
init_loop(c, defs, x, fs) ==
    IF fs = <<>> THEN [items |-> c.items, defs |-> defs]
    ELSE LET f == Builder_func(c, fs[1], x)
         IN  init_loop(f.c, define(defs, fs[1], <<"x">>, f.v), x, Tail(fs))

\* Builder::new
Builder_new ==
    LET x == Builder_var([items |-> CacheNew, live |-> {}], "x")
    IN  init_loop(x.c, [k \in {} |-> 0], x.v, <<"sin", "cos", "exp", "log">>)

-----------------------------------------------------------------------------
(* One Builder and a caller that registers definitions, parses three       *)
(* expressions into handles it keeps, and then calls one operation.        *)

\* the expressions the caller parses: the parser calls the Builder's constructors
EA == <<"var", "a">>
EB == <<"var", "b">>
Exprs ==
    << EA, EB, <<"int", 0>>, <<"int", 2>>,
       <<"add", EA, EB>>, <<"mul", <<"int", 2>>, EA>>,
       <<"div", <<"int", 1>>, <<"int", 2>>>>, <<"func", "sin", EA>>,
       <<"tuple", <<EA, EB>>>>, <<"tuple", <<EA, EB, EA>>>>,
       <<"tuple", <<<<"tuple", <<EA, EB>>>>, EB>>>> >>

\* the definitions the caller registers: f(x) = x * x and g(x, y) = x * y
EX == <<"var", "x">>
EY == <<"var", "y">>
Defs ==
    << [name |-> "f", args |-> <<"x">>, body |-> <<"mul", EX, EX>>],
       [name |-> "g", args |-> <<"x", "y">>, body |-> <<"mul", EX, EY>>] >>

RECURSIVE parse(_, _, _), parse_parts(_, _, _), parse_rhs(_, _, _, _)
parse_parts(acc, es, o) ==
    IF acc.tag # "ok" \/ es = <<>> THEN acc
    ELSE parse_parts(collected(acc, parse(acc.c, es[1], o)), Tail(es), o)

\* the right operand parsed after the left one l, and the operation on both
parse_rhs(op, l, e, o) ==
    IF l.tag # "ok" THEN l ELSE uniform_rhs(op, l.v, parse(l.c, e, o), o)

\* Builder::parse: the constructor calls the parser makes for the expression e
parse(c, e, o) ==
    CASE e[1] = "var" -> Builder_var(c, e[2])
      [] e[1] = "int" -> Builder_int(c, e[2])
      [] e[1] = "func" -> Builder_func_of(e[2], parse(c, e[3], o))
      [] e[1] = "tuple" -> Builder_tuple(parse_parts(Ok(c, <<>>), e[2], o))
      [] OTHER -> parse_rhs(e[1], parse(c, e[2], o), e[3], o)

\* what a result leaves when the call's context is gone
Res(r) == [tag |-> r.tag, v |-> r.v]

\* the handles a call leaves alive besides the caller's own
Kept(r) == IF r.tag = "ok" THEN {r.v} ELSE {}

\* the handles the caller and the definition table own
Roots ==
    {bst.defs[k].expr : k \in DOMAIN bst.defs}
    \cup {ba[i] : i \in 1 .. Len(ba)} \cup {bb[i] : i \in 1 .. Len(bb)}
    \cup {bc[i] : i \in 1 .. Len(bc)}

\* the context of a call: the table, and what the owners in `owned` keep alive
Ctx(its, owned) == [items |-> its, live |-> Reach(owned)]

InitBuilder ==
    /\ bst = Builder_new /\ ba = <<>> /\ bb = <<>> /\ bc = <<>>
    /\ bout = [op |-> "new"]
    /\ CacheIdle /\ PolyIdle /\ SynIdle

\* how many handles the caller holds
NumParsed == Len(ba) + Len(bb) + Len(bc)

\* builder.define(name, args, builder.parse(body).unwrap()): f, then g
BDefine(d, o) ==
    /\ NumParsed = 0
    /\ bout.op \in {"new", "define"}
    /\ d.name \notin DOMAIN bst.defs
    /\ d.name = "g" => "f" \in DOMAIN bst.defs
    /\ \E r \in {parse(Ctx(bst.items, Roots), d.body, o)} :
          /\ r.tag = "ok"
          /\ bst' = [items |-> r.c.items,
                     defs |-> define(bst.defs, d.name, d.args, r.v)]
    /\ bout' = [op |-> "define"]
    /\ UNCHANGED <<ba, bb, bc>>

\* let a = builder.parse(e).unwrap(); then b, then c: n handles in all
BParse(e, o, n) ==
    /\ NumParsed < n
    /\ bout.op \in {"new", "define", "parse"}
    /\ \E r \in {parse(Ctx(bst.items, Roots), e, o)} :
          /\ r.tag = "ok"
          /\ bst' = [bst EXCEPT !.items = r.c.items]
          /\ IF ba = <<>> THEN ba' = <<r.v>> /\ UNCHANGED <<bb, bc>>
             ELSE IF bb = <<>> THEN bb' = <<r.v>> /\ UNCHANGED <<ba, bc>>
             ELSE bc' = <<r.v>> /\ UNCHANGED <<ba, bb>>
    /\ bout' = [op |-> "parse"]

\* op(op(a, b), c) and op(a, op(b, c)), the first result kept while the second is built
BAssoc(op, o1, o2) ==
    /\ NumParsed = 3
    /\ bout.op = "parse"
    /\ \E l \in {uniform_lhs(op, uniform(op, Ctx(bst.items, Roots), ba[1], bb[1], o1),
                             bc[1], o1)} :
       \E r \in {uniform_rhs(op, ba[1],
                             uniform(op, Ctx(l.c.items, Roots \cup Kept(l)),
                                     bb[1], bc[1], o2), o2)} :
          /\ bst' = [bst EXCEPT !.items = r.c.items]
          /\ bout' = [op |-> "assoc", f |-> op, lhs |-> Res(l), rhs |-> Res(r)]
    /\ UNCHANGED <<ba, bb, bc>>

\* the scalar operands of the associativity runs
AssocExprs ==
    << EA, EB, <<"int", 2>>, <<"add", EA, EB>>, <<"mul", <<"int", 2>>, EA>>,
       <<"func", "sin", EA>> >>

NextAssoc ==
    \/ \E i \in 1 .. Len(AssocExprs), o \in Orders :
          BParse(AssocExprs[i], o, 3) /\ UNCHANGED restOfBuilder
    \/ \E op \in {"add", "mul"}, o1 \in Orders, o2 \in Orders :
          BAssoc(op, o1, o2) /\ UNCHANGED restOfBuilder

SpecAssoc == InitBuilder /\ [][NextAssoc]_allVars

\* C3: (a + b) + c and a + (b + c) are one handle, and so are (a * b) * c and
\* a * (b * c)
C3_CanonicalFormStability ==
    (bout.op = "assoc" /\ bout.lhs.tag = "ok" /\ bout.rhs.tag = "ok") =>
        NodeRcEq(bout.lhs.v, bout.rhs.v) /\ PtrEq(bout.lhs.v, bout.rhs.v)

\* the two sums are equal polynomials behind handles that compare unequal
C3_SumsDifferByOrder ==
    /\ bout.op = "assoc" /\ bout.f = "add"
    /\ bout.lhs.tag = "ok" /\ bout.rhs.tag = "ok"
    /\ NodeEq(bout.lhs.v.node, bout.rhs.v.node)
    /\ ~NodeRcEq(bout.lhs.v, bout.rhs.v)

-----------------------------------------------------------------------------
(* One Builder and a caller that registers f and g, parses two expressions *)
(* into the handles a and b, and then calls one operation on them.         *)

IsTuple(h) == h.node.kind = "Tuple"

\* e / e, and then the constant 1
BDivSelf(o) ==
    /\ NumParsed = 2
    /\ bout.op = "parse"
    /\ \E r \in {Builder_div(Ctx(bst.items, Roots), ba[1], ba[1], o)} :
       \E one \in {Builder_int(Ctx(r.c.items, Roots \cup Kept(r)), 1)} :
          /\ bst' = [bst EXCEPT !.items = one.c.items]
          /\ bout' = [op |-> "divself", res |-> Res(r), one |-> Res(one)]
    /\ UNCHANGED <<ba, bb, bc>>

\* a / b
BDiv(o) ==
    /\ NumParsed = 2
    /\ bout.op = "parse"
    /\ \E r \in {Builder_div(Ctx(bst.items, Roots), ba[1], bb[1], o)} :
          /\ bst' = [bst EXCEPT !.items = r.c.items]
          /\ bout' = [op |-> "div", res |-> Res(r)]
    /\ UNCHANGED <<ba, bb, bc>>

\* the exponents pow_i is called with
PowExps == {-1, 0, 2, 4}

\* builder.pow_i(a, i)
BPowI(i, o) ==
    /\ NumParsed = 2
    /\ bout.op = "parse"
    /\ \E r \in {Builder_pow_i(Ctx(bst.items, Roots), ba[1], i, o)} :
          /\ bst' = [bst EXCEPT !.items = r.c.items]
          /\ bout' = [op |-> "pow_i", i |-> i, res |-> Res(r)]
    /\ UNCHANGED <<ba, bb, bc>>

\* exp(b * log(a)) built call by call
exp_log(c, a, b, o) ==
    Builder_func_of("exp", uniform_rhs("mul", b, Builder_func(c, "log", a), o))

\* pow_i(a, i) when b is the integer i, and no call otherwise
pow_i_of(c, a, b, o) ==
    IF IntOf(b) = <<>> THEN Ok(c, <<>>) ELSE Builder_pow_i(c, a, IntOf(b)[1], o)

\* a ^ b, then pow_i(a, i) when b is the integer i, then exp(b * log(a))
BPow(o1, o2) ==
    /\ NumParsed = 2
    /\ bout.op = "parse"
    /\ \E r \in {Builder_pow(Ctx(bst.items, Roots), ba[1], bb[1], o1)} :
       \E pw \in {pow_i_of(Ctx(r.c.items, Roots \cup Kept(r)), ba[1], bb[1], o2)} :
       \E el \in {exp_log(Ctx(pw.c.items,
                               Roots \cup Kept(r)
                                     \cup (IF IntOf(bb[1]) = <<>> THEN {} ELSE Kept(pw))),
                           ba[1], bb[1], o2)} :
          /\ bst' = [bst EXCEPT !.items = el.c.items]
          /\ bout' = [op |-> "pow", res |-> Res(r), powi |-> Res(pw),
                      direct |-> Res(el)]
    /\ UNCHANGED <<ba, bb, bc>>

RECURSIVE each(_, _, _, _, _)
\* op(x, k) for every element x of a tuple, by the builder's own operation
each(op, acc, parts, k, o) ==
    IF acc.tag # "ok" \/ parts = <<>> THEN acc
    ELSE each(op, collected(acc, uniform(op, acc.c, parts[1], k, o)), Tail(parts), k, o)

BinOps == {"add", "sub", "mul", "div", "pow"}

\* op(a, b) for a tuple a, and then tuple(op(x, b), op(y, b), ...)
BBroadcast(op, o1, o2) ==
    /\ NumParsed = 2
    /\ bout.op = "parse"
    /\ IsTuple(ba[1])
    /\ \E l \in {uniform(op, Ctx(bst.items, Roots), ba[1], bb[1], o1)} :
       \E r \in {IF IsTuple(bb[1]) THEN Ok(Ctx(l.c.items, Roots \cup Kept(l)), <<>>)
                 ELSE Builder_tuple(each(op, Ok(Ctx(l.c.items, Roots \cup Kept(l)), <<>>),
                                         ba[1].node.parts, bb[1], o2))} :
          /\ bst' = [bst EXCEPT !.items = r.c.items]
          /\ bout' = [op |-> "broadcast", f |-> op, lhs |-> Res(l), rhs |-> Res(r)]
    /\ UNCHANGED <<ba, bb, bc>>

\* the names apply is called with: f, g, the built-in sin, and the free name t
ApplyNames == {"f", "g", "sin", "t"}

\* builder.apply(builder.var(name), a)
BApply(name, o) ==
    /\ NumParsed = 2
    /\ bout.op = "parse"
    /\ \E left \in {Builder_var(Ctx(bst.items, Roots), name)} :
       \E r \in {IF left.tag # "ok" THEN left
                 ELSE Builder_apply(left.c, bst.defs, left.v, ba[1], o)} :
          /\ bst' = [bst EXCEPT !.items = r.c.items]
          /\ bout' = [op |-> "apply", name |-> name, res |-> Res(r)]
    /\ UNCHANGED <<ba, bb, bc>>

NextBuilder ==
    \/ \E i \in 1 .. Len(Defs), o \in Orders : BDefine(Defs[i], o) /\ UNCHANGED restOfBuilder
    \/ \E i \in 1 .. Len(Exprs), o \in Orders : BParse(Exprs[i], o, 2) /\ UNCHANGED restOfBuilder
    \/ \E o \in Orders : BDivSelf(o) /\ UNCHANGED restOfBuilder
    \/ \E o \in Orders : BDiv(o) /\ UNCHANGED restOfBuilder
    \/ \E i \in PowExps, o \in Orders : BPowI(i, o) /\ UNCHANGED restOfBuilder
    \/ \E o1 \in Orders, o2 \in Orders : BPow(o1, o2) /\ UNCHANGED restOfBuilder
    \/ \E op \in BinOps, o1 \in Orders, o2 \in Orders :
          BBroadcast(op, o1, o2) /\ UNCHANGED restOfBuilder
    \/ \E name \in ApplyNames, o \in Orders : BApply(name, o) /\ UNCHANGED restOfBuilder

SpecBuilder == InitBuilder /\ [][NextBuilder]_allVars

Scalars == ~IsTuple(ba[1]) /\ ~IsTuple(bb[1])

\* the handle of the integer constant 1
IsOne(h) == h.node = PolyNode(PolyInt(1))

\* C5 (as stated): for every scalar e that is not the zero constant, div(e, e)
\* returns the handle of the integer constant 1, unless the store aborts
C5_DivSelfIsOne ==
    (/\ bout.op = "divself"
     /\ ~IsTuple(ba[1]) /\ ~is_zero(poly(ba[1]))
     /\ bout.res.tag # "panic" /\ bout.one.tag # "panic") =>
        /\ bout.res.tag = "ok"
        /\ IsOne(bout.res.v)
        /\ NodeRcEq(bout.res.v, bout.one.v) /\ PtrEq(bout.res.v, bout.one.v)

\* C5 (amended): for every scalar e whose polynomial is one monomial, div(e, e)
\* returns the handle of the integer constant 1; for a sum of several monomials
\* it returns a value that is not the constant 1
C5_DivSelfOfMonomialIsOne ==
    (/\ bout.op = "divself"
     /\ ~IsTuple(ba[1]) /\ ~is_zero(poly(ba[1]))
     /\ bout.res.tag # "panic" /\ bout.one.tag # "panic") =>
        /\ bout.res.tag = "ok"
        /\ Len(poly(ba[1])) = 1 =>
              /\ IsOne(bout.res.v)
              /\ NodeRcEq(bout.res.v, bout.one.v) /\ PtrEq(bout.res.v, bout.one.v)
        /\ Len(poly(ba[1])) > 1 => ~IsOne(bout.res.v)

\* 2 * a divided by itself gave the handle of 1
C5_MonomialDividedByItself ==
    /\ bout.op = "divself"
    /\ Len(poly(ba[1])) = 1 /\ Len(poly(ba[1])[1].base) = 1
    /\ poly(ba[1])[1].fac = RatFromInt(2)
    /\ bout.res.tag = "ok" /\ PtrEq(bout.res.v, bout.one.v)

\* the zero constant: a polynomial that is the rational 0
IsZeroConstant(p) == as_rational(p) # <<>> /\ RatIsZero(as_rational(p)[1])

\* C6: unless the store aborts, div(a, b) on scalars is the division-by-zero
\* error when b is the zero polynomial and a value otherwise; pow_i(a, i) is that
\* error when a is the zero constant and i < 0, and a value otherwise
C6_DivisionByZero ==
    /\ (bout.op = "div" /\ Scalars /\ bout.res.tag # "panic") =>
          IF is_zero(poly(bb[1]))
          THEN bout.res = [tag |-> "err", v |-> DivZero]
          ELSE bout.res.tag = "ok"
    /\ (bout.op = "pow_i" /\ ~IsTuple(ba[1]) /\ bout.res.tag # "panic") =>
          IF IsZeroConstant(poly(ba[1])) /\ bout.i < 0
          THEN bout.res = [tag |-> "err", v |-> DivZero]
          ELSE bout.res.tag = "ok"

\* a variable divided by the zero polynomial gave the error
C6_DividedByZero ==
    /\ bout.op = "div" /\ Scalars
    /\ ba[1].node.kind = "Var" /\ is_zero(poly(bb[1]))
    /\ bout.res = [tag |-> "err", v |-> DivZero]

RECURSIVE Canon(_)
\* the expression a handle stands for: its node without hashes, allocations and
\* the orders of maps and base lists
Canon(h) ==
    LET n == h.node
    IN  CASE n.kind = "Var" -> n
          [] n.kind = "Func" -> [kind |-> "Func", f |-> n.f, arg |-> Canon(n.arg)]
          [] n.kind = "Tuple" ->
                 [kind |-> "Tuple",
                  parts |-> [i \in 1 .. Len(n.parts) |-> Canon(n.parts[i])]]
          [] n.kind = "Poly" ->
                 [kind |-> "Poly",
                  p |-> {[base |-> {<<Canon(n.p[i].base[j][1]), n.p[i].base[j][2]>> :
                                       j \in 1 .. Len(n.p[i].base)},
                          fac |-> n.p[i].fac] : i \in 1 .. Len(n.p)}]

\* two results are the same outcome: the same error, or the same expression
SameExpr(x, y) ==
    /\ x.tag = y.tag
    /\ x.tag = "err" => x.v = y.v
    /\ x.tag = "ok" => Canon(x.v) = Canon(y.v)

\* two results are the same outcome: the same error, or one handle
SameHandle(x, y) ==
    /\ x.tag = y.tag
    /\ x.tag = "err" => x.v = y.v
    /\ x.tag = "ok" => NodeRcEq(x.v, y.v) /\ PtrEq(x.v, y.v)

\* C7: unless the store aborts, pow(a, b) on scalars is pow_i(a, i) when b is
\* the polynomial of the integer i, and otherwise the very handle that building
\* exp(b * log(a)) returns
C7_PowDispatch ==
    (/\ bout.op = "pow" /\ Scalars
     /\ "panic" \notin {bout.res.tag, bout.powi.tag, bout.direct.tag}) =>
        IF IntOf(bb[1]) # <<>>
        THEN SameHandle(bout.res, bout.powi)
        ELSE SameHandle(bout.res, bout.direct)

\* C8: unless the store aborts, op(tuple(x, y, ...), k) for a scalar k is the
\* same expression as tuple(op(x, k), op(y, k), ...), and two tuples of different lengths give the
\* shape-mismatch error with both lengths
C8_BroadcastLaws ==
    bout.op = "broadcast" =>
        /\ (~IsTuple(bb[1]) /\ "panic" \notin {bout.lhs.tag, bout.rhs.tag}) =>
              SameExpr(bout.lhs, bout.rhs)
        /\ (IsTuple(bb[1]) /\ Len(ba[1].node.parts) # Len(bb[1].node.parts)) =>
              bout.lhs = [tag |-> "err",
                          v |-> ShapeMismatch(Len(ba[1].node.parts),
                                              Len(bb[1].node.parts))]

\* a ^ (sum) and exp((sum) * log(a)) built directly: equal products behind
\* handles that compare unequal
C7_PowOfSumExponent ==
    /\ bout.op = "pow" /\ Scalars
    /\ Len(poly(bb[1])) > 1
    /\ bout.res.tag = "ok" /\ bout.direct.tag = "ok"
    /\ NodeEq(bout.res.v.node.arg.node, bout.direct.v.node.arg.node)
    /\ ~NodeRcEq(bout.res.v, bout.direct.v)

\* ((x, y), z) * 2 keeps (x, y) as a base of a polynomial, tuple(op ...) does not
C8_NestedElementNotBroadcast ==
    /\ bout.op = "broadcast" /\ bout.f = "mul"
    /\ IsTuple(ba[1].node.parts[1]) /\ IntOf(bb[1]) = <<2>>
    /\ bout.lhs.tag = "ok" /\ bout.rhs.tag = "ok"
    /\ bout.lhs.v.node.parts[1].node.kind = "Poly"
    /\ IsTuple(bout.rhs.v.node.parts[1])

\* the body of the definition `name` with its parameters replaced: f(p) = p * p,
\* sin(p), g(p, q) = p * q
Body1(c, name, p) ==
    IF name = "f" THEN Builder_mul(c, p, p, 0) ELSE Builder_func(c, name, p)
Body2(c, p, q) == Builder_mul(c, p, q, 0)

RECURSIVE Body1Each(_, _, _)
Body1Each(acc, name, parts) ==
    IF acc.tag # "ok" \/ parts = <<>> THEN acc
    ELSE Body1Each(collected(acc, Body1(acc.c, name, parts[1])), name, Tail(parts))

\* what the claim says apply(var(name), right) gives, in the context c
AppliedIn(c, name, right) ==
    LET n == IF name \in DOMAIN bst.defs THEN Len(bst.defs[name].args) ELSE 0
        m == IF IsTuple(right) THEN Len(right.node.parts) ELSE 1
    IN  IF name \notin DOMAIN bst.defs
        THEN uniform_lhs("mul", Builder_var(c, name), right, 0)
        ELSE IF IsTuple(right)
        THEN IF n = 1 THEN Builder_tuple(Body1Each(Ok(c, <<>>), name, right.node.parts))
             ELSE IF n = m THEN Body2(c, right.node.parts[1], right.node.parts[2])
             ELSE Err(c, ShapeMismatch(n, m))
        ELSE IF n = 1 THEN Body1(c, name, right)
             ELSE Err(c, ShapeMismatch(n, 1))
Applied(name, right) == AppliedIn(Ctx(bst.items, Roots \cup Kept(bout.res)), name, right)

\* C9: unless the store aborts, apply(var(name), right) is the body of the
\* definition substituted per element (one parameter, right a tuple), at once
\* (as many parameters as elements), or once (one parameter, right no tuple), the
\* shape-mismatch error otherwise, and mul(left, right) when name is not defined
C9_ApplyDispatch ==
    (bout.op = "apply" /\ bout.res.tag # "panic") =>
        \A want \in {Applied(bout.name, ba[1])} :
            want.tag # "panic" => SameExpr(bout.res, Res(want))

\* f applied to (p, q) gave a tuple whose second element is q squared
C9_DefinitionAppliedToTuple ==
    /\ bout.op = "apply" /\ bout.name = "f"
    /\ "f" \in DOMAIN bst.defs
    /\ IsTuple(ba[1]) /\ Len(ba[1].node.parts) = 2
    /\ bout.res.tag = "ok" /\ IsTuple(bout.res.v)
    /\ Canon(bout.res.v.node.parts[2]) =
          [kind |-> "Poly",
           p |-> {[base |-> {<<Canon(ba[1].node.parts[2]), 2>>}, fac |-> RatFromInt(1)]}]

-----------------------------------------------------------------------------
(* Three polynomials, the combinators of src/src/poly.rs applied to them,  *)
(* and the algebra laws evaluated on what they have become.                *)

MaxPolySteps == 2

\* the handles of the variables a and b, as a store returns them
AtomA == Builder_var([items |-> CacheNew, live |-> {}], "a")
AtomB == Builder_var(AtomA.c, "b")

\* what the constructors zero, int, rational and from_node return
PolyInputs ==
    { PolyZero, PolyInt(1), PolyInt(-1), PolyRational(Rat(1, 2)),
      from_node(AtomA.v), from_node(AtomB.v) }

InitPoly ==
    /\ pp \in PolyInputs /\ pq \in PolyInputs /\ pr \in PolyInputs
    /\ pout = [op |-> "new", n |-> 0, items |-> AtomB.c.items]
    /\ CacheIdle /\ BuilderIdle /\ SynIdle

PolyReady == pout.op \notin {"laws", "panic"} /\ pout.n < MaxPolySteps

\* the handles in the keys of a polynomial
BaseHandles(p) ==
    UNION {{p[i].base[j][1] : j \in 1 .. Len(p[i].base)} : i \in 1 .. Len(p)}

\* the handles the caller and the three polynomials own
PolyRoots ==
    {AtomA.v, AtomB.v} \cup BaseHandles(pp) \cup BaseHandles(pq) \cup BaseHandles(pr)

\* p = p * k
PScale(k) ==
    /\ PolyReady
    /\ pp' = MulI64(pp, k)
    /\ pout' = [op |-> "scale", n |-> pout.n + 1, items |-> pout.items]
    /\ UNCHANGED <<pq, pr>>

\* p = p + q
PAdd(o) ==
    /\ PolyReady
    /\ pp' = PolyAdd(pp, pq, o)
    /\ pout' = [op |-> "add", n |-> pout.n + 1, items |-> pout.items]
    /\ UNCHANGED <<pq, pr>>

\* p = p * q
PMul(o) ==
    /\ PolyReady
    /\ pp' = PolyMul(pp, pq, o)
    /\ pout' = [op |-> "mul", n |-> pout.n + 1, items |-> pout.items,
                of |-> pp, by |-> pq]
    /\ UNCHANGED <<pq, pr>>

\* p = p.pow_n(n)
PPowN(n, o) ==
    /\ PolyReady
    /\ pp' = pow_n(pp, n, o)
    /\ pout' = [op |-> "pow_n", n |-> pout.n + 1, items |-> pout.items]
    /\ UNCHANGED <<pq, pr>>

\* p *= r
PScaleRational(r) ==
    /\ PolyReady
    /\ pp' = MulAssignRational(pp, r)
    /\ pout' = [op |-> "scale_rational", n |-> pout.n + 1, items |-> pout.items]
    /\ UNCHANGED <<pq, pr>>

\* p = p.split()[j]
PSplit(j) ==
    /\ PolyReady
    /\ j \in 1 .. Len(pp)
    /\ pp' = split(pp)[j]
    /\ pout' = [op |-> "split", n |-> pout.n + 1, items |-> pout.items]
    /\ UNCHANGED <<pq, pr>>

\* p = p.pow_i(&builder, i)?, the builder's store holding a, b and what pow_i
\* interned before; an Err leaves p as it was
PPowI(i, o) ==
    /\ PolyReady
    /\ \E r \in {Poly_pow_i(Ctx(pout.items, PolyRoots), pp, i, o)} :
          /\ pp' = IF r.tag = "ok" THEN r.v ELSE pp
          /\ pout' = [op |-> IF r.tag = "ok" THEN "pow_i" ELSE r.tag,
                      n |-> pout.n + 1, items |-> r.c.items, of |-> pp, i |-> i]
    /\ UNCHANGED <<pq, pr>>

\* p.cmp(&q) and p == q, on p and q as they are
PCmp ==
    /\ PolyReady /\ pout.op # "cmp"
    /\ pout' = [op |-> "cmp", n |-> pout.n, items |-> pout.items,
                ord |-> cmp_poly(pp, pq), eq |-> PolyEq(pp, pq)]
    /\ UNCHANGED <<pp, pq, pr>>

\* both sides of every law, on p, q and r as they are
PLaws(o1, o2) ==
    /\ PolyReady
    /\ pout' = [op |-> "laws", n |-> pout.n, items |-> pout.items,
                add_comm |-> <<PolyAdd(pp, pq, o1), PolyAdd(pq, pp, o2)>>,
                add_assoc |-> <<PolyAdd(PolyAdd(pp, pq, o1), pr, o1),
                                PolyAdd(pp, PolyAdd(pq, pr, o2), o2)>>,
                mul_comm |-> <<PolyMul(pp, pq, o1), PolyMul(pq, pp, o2)>>,
                mul_assoc |-> <<PolyMul(PolyMul(pp, pq, o1), pr, o1),
                                PolyMul(pp, PolyMul(pq, pr, o2), o2)>>,
                add_zero |-> <<PolyAdd(pp, PolyZero, o1), pp>>,
                mul_one |-> <<PolyMul(pp, PolyRational(RatFromInt(1)), o1), pp>>]
    /\ UNCHANGED <<pp, pq, pr>>

NextPoly ==
    \/ \E k \in {0, -1, 2} : PScale(k) /\ UNCHANGED restOfPoly
    \/ \E o \in Orders : PAdd(o) /\ UNCHANGED restOfPoly
    \/ \E o \in Orders : PMul(o) /\ UNCHANGED restOfPoly
    \/ \E n \in {0, 2, 3}, o \in Orders : PPowN(n, o) /\ UNCHANGED restOfPoly
    \/ \E r \in {Rat(0, 1), Rat(1, 2)} : PScaleRational(r) /\ UNCHANGED restOfPoly
    \/ \E j \in 1 .. 2 : PSplit(j) /\ UNCHANGED restOfPoly
    \/ \E i \in {-1, 0, 2}, o \in Orders : PPowI(i, o) /\ UNCHANGED restOfPoly
    \/ PCmp /\ UNCHANGED restOfPoly
    \/ \E o1 \in Orders, o2 \in Orders : PLaws(o1, o2) /\ UNCHANGED restOfPoly

SpecPoly == InitPoly /\ [][NextPoly]_allVars

Law(l) == PolyEq(pout[l][1], pout[l][2])

\* C4: under polynomial equality, p+q = q+p, (p+q)+r = p+(q+r), p*q = q*p,
\* (p*q)*r = p*(q*r), p + zero() = p and p * rational(1) = p
C4_PolyAlgebraLaws ==
    pout.op = "laws" =>
        /\ Law("add_comm") /\ Law("add_assoc")
        /\ Law("mul_comm") /\ Law("mul_assoc")
        /\ Law("add_zero") /\ Law("mul_one")

\* no polynomial stores a zero coefficient
NoZeroCoefficient(p) == \A i \in 1 .. Len(p) : ~RatIsZero(p[i].fac)

\* the laws of C4 on polynomials that store no zero coefficient
C4_LawsWithoutZeroCoefficients ==
    (NoZeroCoefficient(pp) /\ NoZeroCoefficient(pq) /\ NoZeroCoefficient(pr)) =>
        C4_PolyAlgebraLaws

\* (p + q) + r is empty while p + (q + r) keeps the zero coefficient of p
C4_ZeroCoefficientSurvives ==
    /\ pout.op = "laws"
    /\ ~NoZeroCoefficient(pp)
    /\ pout.add_assoc[1] = PolyZero /\ pout.add_assoc[2] = pp

\* C12: whatever combinators were applied, no polynomial stores a monomial with
\* a zero coefficient
C12_NoZeroCoefficientStored ==
    NoZeroCoefficient(pp) /\ NoZeroCoefficient(pq) /\ NoZeroCoefficient(pr)

\* a polynomial multiplied by the integer or the rational 0 keeps its monomials,
\* each with the coefficient 0
C12_ScaledByZero ==
    /\ pout.op \in {"scale", "scale_rational"}
    /\ Len(pp) > 0
    /\ \A i \in 1 .. Len(pp) : RatIsZero(pp[i].fac)

\* a zero coefficient comes into a polynomial that had none only by a scalar
\* multiplication
C12_ZeroOnlyByScaling ==
    [][(NoZeroCoefficient(pp) /\ ~NoZeroCoefficient(pp'))
          => pout'.op \in {"scale", "scale_rational"}]_allVars

\* a monomial key as the spec describes it: sorted by (handle, exponent), no
\* handle twice, no exponent zero
CanonicalBase(base) ==
    /\ \A i, j \in 1 .. Len(base) : i < j => PairCmp(base[i], base[j]) <= 0
    /\ \A i, j \in 1 .. Len(base) : base[i][1] = base[j][1] => i = j
    /\ \A i \in 1 .. Len(base) : base[i][2] # 0

CanonicalKeys(p) == \A i \in 1 .. Len(p) : CanonicalBase(p[i].base)

\* the exponent a key gives a handle, 0 when the handle is not in it
ExponentOf(base, h) ==
    LET hit == {i \in 1 .. Len(base) : base[i][1] = h}
    IN  IF hit = {} THEN 0 ELSE base[CHOOSE i \in hit : TRUE][2]

\* C13: every monomial key of every polynomial is sorted by (handle, exponent)
\* and has no handle twice and no exponent zero; and the product of two
\* monomials is one monomial that gives every handle the sum of the exponents
\* the factors give it, a handle whose exponents sum to zero being dropped
C13_MonomialKeysCanonical ==
    /\ CanonicalKeys(pp) /\ CanonicalKeys(pq) /\ CanonicalKeys(pr)
    /\ (pout.op = "mul" /\ Len(pout.of) = 1 /\ Len(pout.by) = 1) =>
          /\ Len(pp) = 1
          /\ \A h \in BaseHandles(pout.of) \cup BaseHandles(pout.by) \cup BaseHandles(pp) :
                ExponentOf(pp[1].base, h) =
                    ExponentOf(pout.of[1].base, h) + ExponentOf(pout.by[1].base, h)

\* a^-1 was multiplied by a: the shared base is dropped, the constant 1 remains
C13_SharedBaseCancelled ==
    /\ pout.op = "mul"
    /\ pout.of = <<[base |-> << <<AtomA.v, -1>> >>, fac |-> RatFromInt(1)]>>
    /\ pout.by = from_node(AtomA.v)
    /\ pp = <<[base |-> <<>>, fac |-> RatFromInt(1)]>>

\* a key of two bases was raised to a power: a^2 b^2 out of a b
C13_TwoBasesRaised ==
    /\ pout.op = "pow_i" /\ pout.i = 2
    /\ Len(pp) = 1 /\ Len(pp[1].base) = 2
    /\ pp[1].base[1][2] = 2 /\ pp[1].base[2][2] = 2

\* C14: cmp(p, q) is Equal exactly when p == q
C14_CmpEqualIffEq ==
    pout.op = "cmp" => (pout.ord = 0 <=> pout.eq)

\* the keys of one polynomial are the keys of the other
SameKeys(p, q) ==
    /\ \A i \in 1 .. Len(p) : \E j \in 1 .. Len(q) : BaseEq(p[i].base, q[j].base)
    /\ \A j \in 1 .. Len(q) : \E i \in 1 .. Len(p) : BaseEq(p[i].base, q[j].base)

\* what the code does: equal polynomials compare as Equal, and polynomials
\* compare as Equal exactly when they have the same monomial keys, whatever
\* the coefficients
C14_CmpComparesKeysOnly ==
    pout.op = "cmp" =>
        /\ pout.eq => pout.ord = 0
        /\ pout.ord = 0 <=> (Len(pp) = Len(pq) /\ SameKeys(pp, pq))

\* two polynomials that differ only in a coefficient compared as Equal
C14_CoefficientIgnored ==
    /\ pout.op = "cmp" /\ pout.ord = 0 /\ ~pout.eq
    /\ pp = PolyInt(-1) /\ pq = PolyInt(1)

\* two polynomials that differ only in an exponent did not compare as Equal
C14_ExponentCompared ==
    /\ pout.op = "cmp" /\ pout.ord # 0
    /\ pp = <<[base |-> << <<AtomA.v, 2>> >>, fac |-> RatFromInt(1)]>>
    /\ pq = from_node(AtomA.v)

-----------------------------------------------------------------------------
(* The source-emitting backend: src/src/vm/syn.rs.  Tokens are sequences   *)
(* of token strings; the lowering pass holds a stack of values (Tokens)    *)
(* and the storage names that store returned.                              *)

MaxSynOps == 5
MaxVars == 2

I16 == -32768 .. 32767

\* the Syn the state variables make up
Self == [tokens |-> tokens, stored |-> stored, inputs |-> inputs]

\* Syn::new
Syn_new == [tokens |-> <<>>, stored |-> 0, inputs |-> <<>>]

\* what a backend call returns: the Syn after it and a value, or a panic
Val(self, v) == [tag |-> "ok", self |-> self, v |-> v]
Abort(self) == [tag |-> "panic", self |-> self, v |-> <<>>]

\* quote! { Real::int(#i) } after i.cast().unwrap() to i16
Syn_make_int(self, i) ==
    IF i \notin I16 THEN Abort(self)
    ELSE Val(self, <<"Real", "::", "int", "(", ToString(i) \o "i16", ")">>)

\* quote! { #x }
Syn_make_const(self, x) == Val(self, <<x>>)

\* self.inputs.push(name.clone()); quote! { #name }
Syn_make_source(self, name) ==
    Val([self EXCEPT !.inputs = Append(self.inputs, name)], <<name>>)

RECURSIVE Chain(_, _)
\* #( .method( #others ) )*
Chain(method, others) ==
    IF others = <<>> THEN <<>>
    ELSE <<".", method, "(">> \o others[1] \o <<")">> \o Chain(method, Tail(others))

\* quote! { #first #(.add(#others) )* }, parts[0] panics on an empty Vec
Syn_make_sum(self, parts) ==
    IF parts = <<>> THEN Abort(self)
    ELSE Val(self, parts[1] \o Chain("add", Tail(parts)))

\* quote! { #first #( .mul( #others ) )* }
Syn_make_product(self, parts) ==
    IF parts = <<>> THEN Abort(self)
    ELSE Val(self, parts[1] \o Chain("mul", Tail(parts)))

\* quote! { #name }
Syn_load(self, name) == Val(self, <<name>>)

\* store naming the temporary without counting it
Syn_store_uncounted(self, var) ==
    LET name == "storage_" \o ToString(self.stored)
        loaded == Syn_load(self, name)
        emitted == [loaded.self EXCEPT
                       !.tokens = loaded.self.tokens \o <<"let", name, "=">>
                                      \o var \o <<";">>]
    IN  [tag |-> "ok", self |-> emitted, v |-> name, var |-> loaded.v]

\* Syn::store: v is the name returned, var the value left in the caller's place
Syn_store(self, var) ==
    LET name == "storage_" \o ToString(self.stored)
        counted == [self EXCEPT !.stored = self.stored + 1]
        loaded == Syn_load(counted, name)
        emitted == [loaded.self EXCEPT
                       !.tokens = loaded.self.tokens \o <<"let", name, "=">>
                                      \o var \o <<";">>]
    IN  [tag |-> "ok", self |-> emitted, v |-> name, var |-> loaded.v]

\* quote! { #x.ceil() } or quote! { #x.floor() }
Syn_round(self, x, mode) ==
    Val(self, x \o <<".", IF mode = "Up" THEN "ceil" ELSE "floor", "(", ")">>)

\* quote! { #a / #b }
Syn_div(self, a, b) == Val(self, a \o <<"/">> \o b)

\* quote! { #a.inv() }
Syn_inv(self, a) == Val(self, a \o <<".", "inv", "(", ")">>)

\* quote! { #x.ge(#at).select(f32x8::splat(1.0), f32::splat(0.0)) }
Syn_step_at(self, at, x) ==
    Val(self, x \o <<".", "ge", "(">> \o at
              \o <<")", ".", "select", "(", "f32x8", "::", "splat", "(", "1.0", ")",
                   ",", "f32", "::", "splat", "(", "0.0", ")", ")">>)

InitSyn ==
    /\ tokens = Syn_new.tokens /\ stored = Syn_new.stored /\ inputs = Syn_new.inputs
    /\ vars = <<>>
    /\ sout = [op |-> "new", n |-> 0, names |-> <<>>, sources |-> <<>>]
    /\ CacheIdle /\ PolyIdle /\ BuilderIdle

SynReady == sout.op # "panic" /\ sout.n < MaxSynOps

\* the Syn after a call
SetSelf(r) ==
    /\ tokens' = r.self.tokens
    /\ stored' = r.self.stored
    /\ inputs' = r.self.inputs

\* a call that makes a value out of the `used` topmost values; sout.sources are
\* the names make_source was called with, in the order of the calls
Made(op, r, used) ==
    /\ SynReady
    /\ used <= Len(vars)
    /\ Len(vars) - used < MaxVars
    /\ SetSelf(r)
    /\ IF r.tag = "panic"
       THEN /\ sout' = [op |-> "panic", n |-> sout.n + 1, names |-> sout.names,
                        sources |-> sout.sources]
            /\ vars' = SubSeq(vars, 1, Len(vars) - used)
       ELSE /\ sout' = [op |-> op, n |-> sout.n + 1, names |-> sout.names,
                        sources |-> IF op = "make_source"
                                    THEN Append(sout.sources, r.v[1])
                                    ELSE sout.sources]
            /\ vars' = Append(SubSeq(vars, 1, Len(vars) - used), r.v)

\* the `used` topmost values, in the order they were made
Top(used) == SubSeq(vars, Len(vars) - used + 1, Len(vars))

SMakeInt(i) == Made("make_int", Syn_make_int(Self, i), 0)
SMakeConst(x) == Made("make_const", Syn_make_const(Self, x), 0)
SMakeSource(name) == Made("make_source", Syn_make_source(Self, name), 0)
SMakeSum(k) == k <= Len(vars) /\ Made("make_sum", Syn_make_sum(Self, Top(k)), k)
SMakeProduct(k) ==
    k <= Len(vars) /\ Made("make_product", Syn_make_product(Self, Top(k)), k)
SLoad(j) ==
    j \in 1 .. Len(sout.names) /\ Made("load", Syn_load(Self, sout.names[j]), 0)
SRound(mode) == 1 <= Len(vars) /\ Made("round", Syn_round(Self, Top(1)[1], mode), 1)
SInv == 1 <= Len(vars) /\ Made("inv", Syn_inv(Self, Top(1)[1]), 1)
SDiv == 2 <= Len(vars) /\ Made("div", Syn_div(Self, Top(2)[1], Top(2)[2]), 2)
SStepAt ==
    2 <= Len(vars) /\ Made("step_at", Syn_step_at(Self, Top(2)[1], Top(2)[2]), 2)

\* syn.store(&mut vars[j], uses)
SStore(j) ==
    /\ SynReady
    /\ j \in 1 .. Len(vars)
    /\ LET r == Syn_store(Self, vars[j])
       IN  /\ SetSelf(r)
           /\ vars' = [vars EXCEPT ![j] = r.var]
           /\ sout' = [op |-> "store", n |-> sout.n + 1,
                       names |-> Append(sout.names, r.v), sources |-> sout.sources,
                       j |-> j, value |-> vars[j], before |-> tokens]

NextSyn ==
    \/ \E i \in {7, 40000} : SMakeInt(i) /\ UNCHANGED restOfSyn
    \/ SMakeConst("0.5f64") /\ UNCHANGED restOfSyn
    \/ \E name \in {"x", "y"} : SMakeSource(name) /\ UNCHANGED restOfSyn
    \/ \E k \in 0 .. 2 : SMakeSum(k) /\ UNCHANGED restOfSyn
    \/ \E k \in 0 .. 2 : SMakeProduct(k) /\ UNCHANGED restOfSyn
    \/ \E j \in 1 .. MaxSynOps : SLoad(j) /\ UNCHANGED restOfSyn
    \/ \E mode \in {"Up", "Down"} : SRound(mode) /\ UNCHANGED restOfSyn
    \/ SInv /\ UNCHANGED restOfSyn
    \/ SDiv /\ UNCHANGED restOfSyn
    \/ SStepAt /\ UNCHANGED restOfSyn
    \/ \E j \in 1 .. MaxVars : SStore(j) /\ UNCHANGED restOfSyn

SpecSyn == InitSyn /\ [][NextSyn]_allVars

RECURSIVE Bound(_)
\* the names the emitted program binds, in the order of their bindings
Bound(toks) ==
    IF Len(toks) < 2 THEN <<>>
    ELSE IF toks[1] = "let" THEN <<toks[2]>> \o Bound(Tail(toks))
    ELSE Bound(Tail(toks))

\* C10: the names store returned are distinct; the emitted program binds
\* exactly these names, once each and in the order of the calls; a store appends
\* the binding of its name to the value and leaves a load of the name in the
\* value's place; and no temporary occurs in the program before its binding
C10_StoreBindsFreshTemporary ==
    /\ \A i, j \in 1 .. Len(sout.names) : sout.names[i] = sout.names[j] => i = j
    /\ Bound(tokens) = sout.names
    /\ sout.op = "store" =>
          /\ tokens = sout.before \o <<"let", sout.names[Len(sout.names)], "=">>
                          \o sout.value \o <<";">>
          /\ vars[sout.j] = <<sout.names[Len(sout.names)]>>
    /\ \A p \in 1 .. Len(tokens) :
          (\E i \in 1 .. Len(sout.names) : tokens[p] = sout.names[i]) =>
              \E q \in 1 .. (p - 1) : tokens[q] = "let" /\ tokens[q + 1] = tokens[p]

\* the second store bound a value that loads the first temporary
C10_StoredValueReused ==
    /\ sout.op = "store" /\ Len(sout.names) = 2
    /\ sout.names = <<"storage_0", "storage_1">>
    /\ Len(sout.value) > 1
    /\ \E p \in 1 .. Len(sout.value) : sout.value[p] = "storage_0"

-----------------------------------------------------------------------------
(* The formal parameters of the callable that syn assembles.               *)

RECURSIVE syn_params(_)
\* syn: #(#params),* with params = syn.inputs.iter().map(|i| quote! { #i: T })
syn_params(ins) ==
    IF ins = <<>> THEN <<>>
    ELSE <<ins[1], ":", "T">> \o (IF Len(ins) > 1 THEN <<",">> ELSE <<>>)
             \o syn_params(Tail(ins))

RECURSIVE Formals(_)
\* the names of the formal parameters in a parameter list
Formals(toks) ==
    IF Len(toks) < 2 THEN <<>>
    ELSE IF toks[2] = ":" THEN <<toks[1]>> \o Formals(Tail(toks))
    ELSE Formals(Tail(toks))

RECURSIVE FirstOccurrences(_)
\* the distinct names of a sequence, each at the place of its first occurrence
FirstOccurrences(names) ==
    IF names = <<>> THEN <<>>
    ELSE LET before == FirstOccurrences(SubSeq(names, 1, Len(names) - 1))
             last == names[Len(names)]
         IN  IF \E i \in 1 .. Len(before) : before[i] = last THEN before
             ELSE Append(before, last)

\* C11: the recorded inputs are the distinct names make_source was called with,
\* once each and in the order of their first occurrence, and the callable syn
\* assembles has exactly these formal parameters
C11_InputsOncePerName ==
    /\ inputs = FirstOccurrences(sout.sources)
    /\ Formals(syn_params(inputs)) = FirstOccurrences(sout.sources)

\* what the code does: every call of make_source records its name, repeated or
\* not, and each record becomes a formal parameter
C11_InputsPerCall ==
    /\ inputs = sout.sources
    /\ Formals(syn_params(inputs)) = sout.sources

\* make_source was called twice with one name
C11_NameRecordedTwice ==
    /\ sout.op = "make_source"
    /\ sout.sources = <<"x", "x">>
    /\ syn_params(inputs) = <<"x", ":", "T", ",", "x", ":", "T">>

====
